---- MODULE Spec2Model ----
(***************************************************************************)
(* A model of the code cells of 00_introducing_asyncio.ipynb.              *)
(*                                                                         *)
(* One behaviour executes one cell of the notebook.  Time is a logical     *)
(* clock `now`: it advances only while every live thread is blocked in     *)
(* time.sleep / Thread.join (or the event loop waits for a timer), or      *)
(* while a thread burns a unit of CPU work in cpu_bound.                   *)
(***************************************************************************)
EXTENDS Integers, Sequences, FiniteSets

VARIABLES
    cell,         \* the notebook cell being executed
    now,          \* logical clock (time.time())
    out,          \* the printed lines, in order
    st,           \* per thread: "new" | "waiting" | "running" | "blocked" | "finished"
    pc,           \* per thread: position in its code
    gil,          \* the thread holding the GIL, or "none"
    wake,         \* per thread: deadline of its time.sleep, -1 when not sleeping
    joining,      \* the thread the main thread is blocked on in join(), or "none"
    started_at,   \* per thread: the local `start = time.time()`
    elapsed,      \* per worker: the local `end` of named_timer's wrapper
    work,         \* per worker: CPU units cpu_bound still has to do
    k,            \* main thread: index of the next start()/join() statement
    i,            \* sequential cell: the comprehension's loop variable
    sleep_time,   \* sequential cell: routine's local sleep_time
    results,      \* sequential cell: the list being built
    running_loop, \* events._get_running_loop(): "none" | "kernel" | "new"
    task,         \* per task: "absent" | "ready" | "running" | "suspended" | "done"
    cpc,          \* per task: position of its coroutine
    timer,        \* per task: deadline of its asyncio.sleep, -1 when none
    err,          \* the exception that ended the cell, or "none"
    ksteps        \* number of steps the other task of the loop has run

vars == <<cell, now, out, st, pc, gil, wake, joining, started_at, elapsed, work,
          k, i, sleep_time, results, running_loop, task, cpc, timer,
          err, ksteps>>

thrVars   == <<st, pc, gil, wake, joining, started_at, elapsed, work, k>>
seqVars   == <<i, sleep_time, results>>
asyncVars == <<running_loop, task, cpc, timer, err, ksteps>>

-----------------------------------------------------------------------------
(* Bounds of the model *)

\* CPU units of cpu_bound(1, 100000, 1), the short job of T1
CpuUnits1 == 1
\* CPU units of cpu_bound(100000, 10000000, 1), the long job of T2
CpuUnits2 == 3
\* steps the other task living on the kernel's event loop may run
MaxKernelSteps == 3

-----------------------------------------------------------------------------
(* Threads, cells and their parameters *)

Workers    == {"T1", "T2"}
AllThreads == {"main"} \cup Workers

ThreadCells == {"cpu_threads", "io_threads", "refactored", "re_refactored"}
AsyncCells  == {"asyncio_run", "await_main"}
Cells       == {"sequential"} \cup ThreadCells \cup AsyncCells

\* the list `threads` of the refactored cells, in list order
threads == <<"T1", "T2">>

\* args=(1,) and args=(2,): the sleep time handed to io_bound
SleepArg(t) == IF t = "T1" THEN 1 ELSE 2

\* the work of cpu_bound for the args of the CPU-bound cell
CpuArg(t) == IF t = "T1" THEN CpuUnits1 ELSE CpuUnits2

\* the name given to named_timer for thread t
TimerName(c, t) == IF c \in {"refactored", "re_refactored"}
                   THEN (IF t = "T1" THEN "T1_imp" ELSE "T2_imp")
                   ELSE t

Line(kind, who, val) == [kind |-> kind, who |-> who, val |-> val]

\* print(...)
print(line) == out' = Append(out, line)

-----------------------------------------------------------------------------
(* The statements of the main thread in the threading cells *)

Stmt(op, t) == [op |-> op, t |-> t]

\* t1.start(); t2.start(); t1.join(); t2.join()
explicit_start_join ==
    <<Stmt("start", "T1"), Stmt("start", "T2"),
      Stmt("join", "T1"), Stmt("join", "T2")>>

\* the two loops merged into one: start and join in the same iteration
loops_merged ==
    [n \in 1..(2 * Len(threads)) |->
        IF n % 2 = 1 THEN Stmt("start", threads[(n + 1) \div 2])
                     ELSE Stmt("join", threads[n \div 2])]

\* for thread in threads: thread.start()
\* for thread in threads: thread.join()
re_refactored_loops ==
    [n \in 1..(2 * Len(threads)) |->
        IF n <= Len(threads) THEN Stmt("start", threads[n])
                             ELSE Stmt("join", threads[n - Len(threads)])]

\* the loop split in two: every start before the first join
loop_split ==
    [n \in 1..(2 * Len(threads)) |->
        IF n <= Len(threads) THEN Stmt("start", threads[n])
                             ELSE Stmt("join", threads[n - Len(threads)])]

\* for thread in threads: thread.start(); thread.join()
refactored_loop ==
    [n \in 1..(2 * Len(threads)) |->
        IF n % 2 = 1 THEN Stmt("start", threads[(n + 1) \div 2])
                     ELSE Stmt("join", threads[n \div 2])]

Program(c) ==
    CASE c = "refactored"    -> refactored_loop
      [] c = "re_refactored" -> re_refactored_loops
      [] OTHER               -> explicit_start_join

-----------------------------------------------------------------------------
(* The GIL and blocking calls *)

\* a GIL that any thread may take at any time
GilAlwaysFree == TRUE

\* a thread that wants to run acquires the GIL first; it cannot while
\* another thread holds it
GilFree == gil = "none"

TakeGil(t) ==
    /\ st[t] = "waiting"
    /\ GilFree
    /\ st' = [st EXCEPT ![t] = "running"]
    /\ gil' = t
    /\ UNCHANGED <<cell, now, out, pc, wake, joining, started_at, elapsed,
                   work, k>>
    /\ UNCHANGED seqVars
    /\ UNCHANGED asyncVars

\* the running thread is made to give up the GIL between two bytecodes when
\* another thread is waiting for it
Preempt(t) ==
    /\ st[t] = "running"
    /\ gil = t
    /\ \E u \in AllThreads \ {t} : st[u] = "waiting"
    /\ st' = [st EXCEPT ![t] = "waiting"]
    /\ gil' = "none"
    /\ UNCHANGED <<cell, now, out, pc, wake, joining, started_at, elapsed,
                   work, k>>
    /\ UNCHANGED seqVars
    /\ UNCHANGED asyncVars

\* a blocking call that keeps the GIL
GilKeptDuringIO(t) == t

\* the holder of the GIL during a blocking I/O call of thread t
GilDuringIO(t) == "none"

\* time.sleep(d) called by thread t: the thread blocks for d ticks and the
\* GIL is released for the duration of the call
time_sleep(t, d) ==
    /\ st' = [st EXCEPT ![t] = "blocked"]
    /\ gil' = GilDuringIO(t)
    /\ wake' = [wake EXCEPT ![t] = now + d]

\* the sleep of thread t is over; it needs the GIL again to go on
SleepWake(t) ==
    /\ st[t] = "blocked"
    /\ wake[t] >= 0
    /\ now >= wake[t]
    /\ st' = [st EXCEPT ![t] = "waiting"]
    /\ wake' = [wake EXCEPT ![t] = -1]
    /\ UNCHANGED <<cell, now, out, pc, gil, joining, started_at, elapsed,
                   work, k>>
    /\ UNCHANGED seqVars
    /\ UNCHANGED asyncVars

-----------------------------------------------------------------------------
(* named_timer's wrapper, run by a worker thread *)

\* start = time.time()
WrapperStart(t) ==
    /\ cell \in ThreadCells
    /\ st[t] = "running" /\ pc[t] = "w_start"
    /\ started_at' = [started_at EXCEPT ![t] = now]
    /\ pc' = [pc EXCEPT ![t] = "w_call"]
    /\ UNCHANGED <<cell, now, out, st, gil, wake, joining, elapsed, work, k>>
    /\ UNCHANGED seqVars
    /\ UNCHANGED asyncVars

\* res = func(*args, **kwargs) with func = io_bound: time.sleep(sleep_time)
io_bound(t) ==
    /\ cell \in ThreadCells \ {"cpu_threads"}
    /\ st[t] = "running" /\ pc[t] = "w_call"
    /\ time_sleep(t, SleepArg(t))
    /\ pc' = [pc EXCEPT ![t] = "w_end"]
    /\ UNCHANGED <<cell, now, out, joining, started_at, elapsed, work, k>>
    /\ UNCHANGED seqVars
    /\ UNCHANGED asyncVars

\* res = func(*args, **kwargs) with func = cpu_bound: one unit of the sum;
\* only the thread that holds the GIL executes bytecode
cpu_bound(t) ==
    /\ cell = "cpu_threads"
    /\ st[t] = "running" /\ pc[t] = "w_call"
    /\ work[t] > 0
    /\ work' = [work EXCEPT ![t] = work[t] - 1]
    /\ now' = now + 1
    /\ pc' = [pc EXCEPT ![t] = IF work[t] = 1 THEN "w_end" ELSE "w_call"]
    /\ UNCHANGED <<cell, out, st, gil, wake, joining, started_at, elapsed, k>>
    /\ UNCHANGED seqVars
    /\ UNCHANGED asyncVars

\* end = round(time.time() - start, 2)
WrapperEnd(t) ==
    /\ cell \in ThreadCells
    /\ st[t] = "running" /\ pc[t] = "w_end"
    /\ elapsed' = [elapsed EXCEPT ![t] = now - started_at[t]]
    /\ pc' = [pc EXCEPT ![t] = "w_print"]
    /\ UNCHANGED <<cell, now, out, st, gil, wake, joining, started_at, work, k>>
    /\ UNCHANGED seqVars
    /\ UNCHANGED asyncVars

\* print(f"{name} elapsed time: {end}")
WrapperPrint(t) ==
    /\ cell \in ThreadCells
    /\ st[t] = "running" /\ pc[t] = "w_print"
    /\ print(Line("elapsed_time", TimerName(cell, t), <<elapsed[t]>>))
    /\ pc' = [pc EXCEPT ![t] = "w_return"]
    /\ UNCHANGED <<cell, now, st, gil, wake, joining, started_at, elapsed,
                   work, k>>
    /\ UNCHANGED seqVars
    /\ UNCHANGED asyncVars

\* return res: the target returns and the thread ends, giving up the GIL
WrapperReturn(t) ==
    /\ cell \in ThreadCells
    /\ st[t] = "running" /\ pc[t] = "w_return"
    /\ st' = [st EXCEPT ![t] = "finished"]
    /\ gil' = "none"
    /\ pc' = [pc EXCEPT ![t] = "done"]
    /\ UNCHANGED <<cell, now, out, wake, joining, started_at, elapsed, work, k>>
    /\ UNCHANGED seqVars
    /\ UNCHANGED asyncVars

-----------------------------------------------------------------------------
(* The main thread of the threading cells *)

\* start = time.time()
MainStartTime ==
    /\ cell \in ThreadCells
    /\ st["main"] = "running" /\ pc["main"] = "m_start"
    /\ started_at' = [started_at EXCEPT !["main"] = now]
    /\ pc' = [pc EXCEPT !["main"] = "m_stmt"]
    /\ UNCHANGED <<cell, now, out, st, gil, wake, joining, elapsed, work, k>>
    /\ UNCHANGED seqVars
    /\ UNCHANGED asyncVars

\* the position of the main thread after statement k of its program
AfterStmt == IF k = Len(Program(cell)) THEN "m_print" ELSE "m_stmt"

\* thread.start(): the new thread becomes runnable and competes for the GIL
ThreadStart ==
    /\ cell \in ThreadCells
    /\ st["main"] = "running" /\ pc["main"] = "m_stmt"
    /\ Program(cell)[k].op = "start"
    /\ st[Program(cell)[k].t] = "new"
    /\ st' = [st EXCEPT ![Program(cell)[k].t] = "waiting"]
    /\ k' = IF k = Len(Program(cell)) THEN k ELSE k + 1
    /\ pc' = [pc EXCEPT !["main"] = AfterStmt]
    /\ UNCHANGED <<cell, now, out, gil, wake, joining, started_at, elapsed, work>>
    /\ UNCHANGED seqVars
    /\ UNCHANGED asyncVars

\* thread.join() on a thread that has already finished returns at once
ThreadJoinDone ==
    /\ cell \in ThreadCells
    /\ st["main"] = "running" /\ pc["main"] = "m_stmt"
    /\ Program(cell)[k].op = "join"
    /\ st[Program(cell)[k].t] = "finished"
    /\ k' = IF k = Len(Program(cell)) THEN k ELSE k + 1
    /\ pc' = [pc EXCEPT !["main"] = AfterStmt]
    /\ UNCHANGED <<cell, now, out, st, gil, wake, joining, started_at, elapsed,
                   work>>
    /\ UNCHANGED seqVars
    /\ UNCHANGED asyncVars

\* thread.join() on a live thread blocks the caller (without the GIL) until
\* that thread finishes
ThreadJoinBlock ==
    /\ cell \in ThreadCells
    /\ st["main"] = "running" /\ pc["main"] = "m_stmt"
    /\ Program(cell)[k].op = "join"
    /\ st[Program(cell)[k].t] # "finished"
    /\ st' = [st EXCEPT !["main"] = "blocked"]
    /\ gil' = "none"
    /\ joining' = Program(cell)[k].t
    /\ UNCHANGED <<cell, now, out, pc, wake, started_at, elapsed, work, k>>
    /\ UNCHANGED seqVars
    /\ UNCHANGED asyncVars

\* the joined thread has finished: join() returns once the caller has the
\* GIL again
ThreadJoinWake ==
    /\ cell \in ThreadCells
    /\ st["main"] = "blocked"
    /\ joining # "none"
    /\ st[joining] = "finished"
    /\ st' = [st EXCEPT !["main"] = "waiting"]
    /\ joining' = "none"
    /\ k' = IF k = Len(Program(cell)) THEN k ELSE k + 1
    /\ pc' = [pc EXCEPT !["main"] = AfterStmt]
    /\ UNCHANGED <<cell, now, out, gil, wake, started_at, elapsed, work>>
    /\ UNCHANGED seqVars
    /\ UNCHANGED asyncVars

\* print(f"... work time: {time.time() - start}")
MainPrintWorkTime ==
    /\ cell \in ThreadCells
    /\ st["main"] = "running" /\ pc["main"] = "m_print"
    /\ print(Line("work_time", "", <<now - started_at["main"]>>))
    /\ pc' = [pc EXCEPT !["main"] = "done"]
    /\ UNCHANGED <<cell, now, st, gil, wake, joining, started_at, elapsed,
                   work, k>>
    /\ UNCHANGED seqVars
    /\ UNCHANGED asyncVars

-----------------------------------------------------------------------------
(* The sequential cell: results = [routine(f"R{i}") for i in range(3, 0, -1)] *)

\* range(3, 0, -1): stop value and step
range_stop  == 0
range_step  == -1

\* a range that starts at its last value instead of its first
range_start_from_one == range_stop + 1

\* range(3, 0, -1): first value
range_start == 3

\* f"R{i}"
RName(n) == CASE n = 1 -> "R1" [] n = 2 -> "R2" [] n = 3 -> "R3" [] OTHER -> "R?"

\* random.randint(1, 5): both ends included
randint_lo == 1
randint_hi == 5

\* start = time.time()
SeqStartTime ==
    /\ cell = "sequential"
    /\ st["main"] = "running" /\ pc["main"] = "s_start"
    /\ started_at' = [started_at EXCEPT !["main"] = now]
    /\ pc' = [pc EXCEPT !["main"] = "s_loop"]
    /\ UNCHANGED <<cell, now, out, st, gil, wake, joining, elapsed, work, k>>
    /\ UNCHANGED seqVars
    /\ UNCHANGED asyncVars

\* the comprehension: call routine for the next i, or leave when the range
\* is exhausted
SeqLoop ==
    /\ cell = "sequential"
    /\ st["main"] = "running" /\ pc["main"] = "s_loop"
    /\ pc' = [pc EXCEPT !["main"] = IF i = range_stop THEN "s_results"
                                                      ELSE "r_randint"]
    /\ UNCHANGED <<cell, now, out, st, gil, wake, joining, started_at, elapsed,
                   work, k>>
    /\ UNCHANGED seqVars
    /\ UNCHANGED asyncVars

\* sleep_time: int = random.randint(1, 5)
RoutineRandint ==
    /\ cell = "sequential"
    /\ st["main"] = "running" /\ pc["main"] = "r_randint"
    /\ \E d \in randint_lo..randint_hi : sleep_time' = d
    /\ pc' = [pc EXCEPT !["main"] = "r_print_sleeping"]
    /\ UNCHANGED <<cell, now, out, st, gil, wake, joining, started_at, elapsed,
                   work, k, i, results>>
    /\ UNCHANGED asyncVars

\* print(f"{name} is sleeping for {sleep_time} seconds.")
RoutinePrintSleeping ==
    /\ cell = "sequential"
    /\ st["main"] = "running" /\ pc["main"] = "r_print_sleeping"
    /\ print(Line("is_sleeping", RName(i), <<sleep_time>>))
    /\ pc' = [pc EXCEPT !["main"] = "r_sleep"]
    /\ UNCHANGED <<cell, now, st, gil, wake, joining, started_at, elapsed,
                   work, k>>
    /\ UNCHANGED seqVars
    /\ UNCHANGED asyncVars

\* time.sleep(sleep_time)
RoutineSleep ==
    /\ cell = "sequential"
    /\ st["main"] = "running" /\ pc["main"] = "r_sleep"
    /\ time_sleep("main", sleep_time)
    /\ pc' = [pc EXCEPT !["main"] = "r_print_woken"]
    /\ UNCHANGED <<cell, now, out, joining, started_at, elapsed, work, k>>
    /\ UNCHANGED seqVars
    /\ UNCHANGED asyncVars

\* print(f"{name} has woken up.")
RoutinePrintWoken ==
    /\ cell = "sequential"
    /\ st["main"] = "running" /\ pc["main"] = "r_print_woken"
    /\ print(Line("has_woken_up", RName(i), <<>>))
    /\ pc' = [pc EXCEPT !["main"] = "r_return"]
    /\ UNCHANGED <<cell, now, st, gil, wake, joining, started_at, elapsed,
                   work, k>>
    /\ UNCHANGED seqVars
    /\ UNCHANGED asyncVars

\* return sleep_time**10: the value is appended to the list and the
\* comprehension moves to the next i
RoutineReturn ==
    /\ cell = "sequential"
    /\ st["main"] = "running" /\ pc["main"] = "r_return"
    /\ results' = Append(results, sleep_time ^ 10)
    /\ i' = i + range_step
    /\ pc' = [pc EXCEPT !["main"] = "s_loop"]
    /\ UNCHANGED <<cell, now, out, st, gil, wake, joining, started_at, elapsed,
                   work, k, sleep_time>>
    /\ UNCHANGED asyncVars

\* print(f"Results = {results}")
SeqPrintResults ==
    /\ cell = "sequential"
    /\ st["main"] = "running" /\ pc["main"] = "s_results"
    /\ print(Line("Results", "", results))
    /\ pc' = [pc EXCEPT !["main"] = "s_elapsed"]
    /\ UNCHANGED <<cell, now, st, gil, wake, joining, started_at, elapsed,
                   work, k>>
    /\ UNCHANGED seqVars
    /\ UNCHANGED asyncVars

\* print(f"Elapsed time: {round(time.time() - start, 2)}")
SeqPrintElapsed ==
    /\ cell = "sequential"
    /\ st["main"] = "running" /\ pc["main"] = "s_elapsed"
    /\ print(Line("Elapsed_time", "", <<now - started_at["main"]>>))
    /\ pc' = [pc EXCEPT !["main"] = "done"]
    /\ UNCHANGED <<cell, now, st, gil, wake, joining, started_at, elapsed,
                   work, k>>
    /\ UNCHANGED seqVars
    /\ UNCHANGED asyncVars

-----------------------------------------------------------------------------
(* The event loop of the asyncio cells.  It lives in the main thread.     *)
(* "cell" is the task that executes the code of the cell, "kernel" is the *)
(* other task of the loop Jupyter already runs.                           *)

Tasks == {"cell", "kernel"}

\* a loop that starts a ready task without waiting for the running one
LoopNeverBusy == TRUE

LoopIdle == \A u \in Tasks : task[u] # "running"

\* the loop runs one ready task; it does so only from its own thread, after
\* the previous one has given control back
LoopRunOnce(t) ==
    /\ cell \in AsyncCells
    /\ st["main"] = "running"
    /\ LoopIdle
    /\ task[t] = "ready"
    /\ task' = [task EXCEPT ![t] = "running"]
    /\ UNCHANGED <<cell, now, out>>
    /\ UNCHANGED thrVars
    /\ UNCHANGED seqVars
    /\ UNCHANGED <<running_loop, cpc, timer, err, ksteps>>

\* the timer of a sleeping task has expired: the loop makes the task ready
TimerFire(t) ==
    /\ cell \in AsyncCells
    /\ st["main"] = "running"
    /\ LoopIdle
    /\ task[t] = "suspended"
    /\ timer[t] >= 0 /\ now >= timer[t]
    /\ task' = [task EXCEPT ![t] = "ready"]
    /\ timer' = [timer EXCEPT ![t] = -1]
    /\ UNCHANGED <<cell, now, out>>
    /\ UNCHANGED thrVars
    /\ UNCHANGED seqVars
    /\ UNCHANGED <<running_loop, cpc, err, ksteps>>

\* asyncio.run without its check of the running loop
NoRunningLoopCheck == FALSE

\* if events._get_running_loop() is not None
InRunningLoop == running_loop # "none"

\* asyncio.run(main()): raises when called from a running event loop,
\* otherwise runs main() in a new loop
asyncio_run ==
    /\ cell = "asyncio_run"
    /\ st["main"] = "running"
    /\ task["cell"] = "running" /\ cpc["cell"] = "a_run"
    /\ IF InRunningLoop
       THEN /\ err' = "RuntimeError"
            /\ task' = [task EXCEPT !["cell"] = "done"]
            /\ cpc' = [cpc EXCEPT !["cell"] = "raised"]
            /\ UNCHANGED running_loop
       ELSE /\ running_loop' = "new"
            /\ cpc' = [cpc EXCEPT !["cell"] = "m_routine"]
            /\ UNCHANGED <<err, task>>
    /\ UNCHANGED <<cell, now, out>>
    /\ UNCHANGED thrVars
    /\ UNCHANGED seqVars
    /\ UNCHANGED <<timer, ksteps>>

\* main: print(routine()) -- routine's first statement,
\* print(f"Coroutine is sleeping for {sleep_time} second[s].")
RoutinePrint ==
    /\ cell \in AsyncCells
    /\ st["main"] = "running"
    /\ task["cell"] = "running" /\ cpc["cell"] = "m_routine"
    /\ print(Line("is_sleeping", "Coroutine", <<1>>))
    /\ cpc' = [cpc EXCEPT !["cell"] = "r_sleep"]
    /\ UNCHANGED <<cell, now>>
    /\ UNCHANGED thrVars
    /\ UNCHANGED seqVars
    /\ UNCHANGED <<running_loop, task, timer, err, ksteps>>

\* routine sleeping the way a coroutine does: the task is suspended on a
\* timer and control goes back to the loop
RoutineYieldingSleep ==
    /\ cell \in AsyncCells
    /\ st["main"] = "running"
    /\ task["cell"] = "running" /\ cpc["cell"] = "r_sleep"
    /\ task' = [task EXCEPT !["cell"] = "suspended"]
    /\ timer' = [timer EXCEPT !["cell"] = now + 1]
    /\ cpc' = [cpc EXCEPT !["cell"] = "r_return"]
    /\ UNCHANGED <<cell, now, out>>
    /\ UNCHANGED thrVars
    /\ UNCHANGED seqVars
    /\ UNCHANGED <<running_loop, err, ksteps>>

\* routine: time.sleep(sleep_time) -- the thread of the loop blocks; the
\* task does not give control back
RoutineTimeSleep ==
    /\ cell \in AsyncCells
    /\ st["main"] = "running"
    /\ task["cell"] = "running" /\ cpc["cell"] = "r_sleep"
    /\ time_sleep("main", 1)
    /\ cpc' = [cpc EXCEPT !["cell"] = "r_return"]
    /\ UNCHANGED <<cell, now, out>>
    /\ UNCHANGED <<pc, joining, started_at, elapsed, work, k>>
    /\ UNCHANGED seqVars
    /\ UNCHANGED <<running_loop, task, timer, err, ksteps>>

\* routine: return "hello, routine." and main prints it
RoutineReturnPrint ==
    /\ cell \in AsyncCells
    /\ st["main"] = "running"
    /\ task["cell"] = "running" /\ cpc["cell"] = "r_return"
    /\ print(Line("print", "hello, routine.", <<>>))
    /\ cpc' = [cpc EXCEPT !["cell"] = "c_print"]
    /\ UNCHANGED <<cell, now>>
    /\ UNCHANGED thrVars
    /\ UNCHANGED seqVars
    /\ UNCHANGED <<running_loop, task, timer, err, ksteps>>

\* main: print(await coroutine()) -- coroutine's first statement,
\* print(f"Coroutine is sleeping for {sleep_time} second[s].")
CoroutinePrint ==
    /\ cell \in AsyncCells
    /\ st["main"] = "running"
    /\ task["cell"] = "running" /\ cpc["cell"] = "c_print"
    /\ print(Line("is_sleeping", "Coroutine", <<1>>))
    /\ cpc' = [cpc EXCEPT !["cell"] = "c_await"]
    /\ UNCHANGED <<cell, now>>
    /\ UNCHANGED thrVars
    /\ UNCHANGED seqVars
    /\ UNCHANGED <<running_loop, task, timer, err, ksteps>>

\* coroutine: await asyncio.sleep(sleep_time) -- the task is suspended and
\* control goes back to the loop
CoroutineAwaitSleep ==
    /\ cell \in AsyncCells
    /\ st["main"] = "running"
    /\ task["cell"] = "running" /\ cpc["cell"] = "c_await"
    /\ task' = [task EXCEPT !["cell"] = "suspended"]
    /\ timer' = [timer EXCEPT !["cell"] = now + 1]
    /\ cpc' = [cpc EXCEPT !["cell"] = "c_return"]
    /\ UNCHANGED <<cell, now, out>>
    /\ UNCHANGED thrVars
    /\ UNCHANGED seqVars
    /\ UNCHANGED <<running_loop, err, ksteps>>

\* coroutine: return "Hello, coroutine." and main prints it and returns
CoroutineReturnPrint ==
    /\ cell \in AsyncCells
    /\ st["main"] = "running"
    /\ task["cell"] = "running" /\ cpc["cell"] = "c_return"
    /\ print(Line("print", "Hello, coroutine.", <<>>))
    /\ cpc' = [cpc EXCEPT !["cell"] = "done"]
    /\ task' = [task EXCEPT !["cell"] = "done"]
    /\ UNCHANGED <<cell, now>>
    /\ UNCHANGED thrVars
    /\ UNCHANGED seqVars
    /\ UNCHANGED <<running_loop, timer, err, ksteps>>

\* the other task of the already running loop has something to do
KernelEvent ==
    /\ cell \in AsyncCells
    /\ st["main"] = "running"
    /\ LoopIdle
    /\ task["kernel"] = "suspended"
    /\ ksteps < MaxKernelSteps
    /\ task' = [task EXCEPT !["kernel"] = "ready"]
    /\ UNCHANGED <<cell, now, out>>
    /\ UNCHANGED thrVars
    /\ UNCHANGED seqVars
    /\ UNCHANGED <<running_loop, cpc, timer, err, ksteps>>

\* the other task runs up to its next await
KernelStep ==
    /\ cell \in AsyncCells
    /\ st["main"] = "running"
    /\ task["kernel"] = "running" /\ cpc["kernel"] = "k_step"
    /\ ksteps' = ksteps + 1
    /\ cpc' = [cpc EXCEPT !["kernel"] = "k_await"]
    /\ UNCHANGED <<cell, now, out>>
    /\ UNCHANGED thrVars
    /\ UNCHANGED seqVars
    /\ UNCHANGED <<running_loop, task, timer, err>>

\* the other task awaits: it is suspended and control goes back to the loop
KernelAwait ==
    /\ cell \in AsyncCells
    /\ st["main"] = "running"
    /\ task["kernel"] = "running" /\ cpc["kernel"] = "k_await"
    /\ task' = [task EXCEPT !["kernel"] = "suspended"]
    /\ cpc' = [cpc EXCEPT !["kernel"] = "k_step"]
    /\ UNCHANGED <<cell, now, out>>
    /\ UNCHANGED thrVars
    /\ UNCHANGED seqVars
    /\ UNCHANGED <<running_loop, timer, err, ksteps>>

-----------------------------------------------------------------------------
(* The logical clock *)

\* thread t has a step it can take now
CanStep(t) ==
    \/ st[t] = "waiting" /\ GilFree
    \/ /\ st[t] = "running"
       /\ IF cell \in AsyncCells
          THEN \E u \in Tasks : \/ task[u] \in {"ready", "running"}
                                \/ timer[u] >= 0 /\ now >= timer[u]
          ELSE pc[t] # "done"
    \/ st[t] = "blocked" /\ wake[t] >= 0 /\ now >= wake[t]
    \/ st[t] = "blocked" /\ joining # "none" /\ st[joining] = "finished"

\* a sleep (time.sleep or asyncio.sleep) that has not expired yet
SleepPending ==
    \/ \E t \in AllThreads : wake[t] > now
    \/ \E u \in Tasks : timer[u] > now

\* time passes while nobody can run and somebody sleeps
Tick ==
    /\ \A t \in AllThreads : ~CanStep(t)
    /\ SleepPending
    /\ now' = now + 1
    /\ UNCHANGED <<cell, out>>
    /\ UNCHANGED thrVars
    /\ UNCHANGED seqVars
    /\ UNCHANGED asyncVars

-----------------------------------------------------------------------------
(* Initial states and next-state relation *)

Init ==
    /\ cell \in Cells
    /\ now = 0
    /\ out = <<>>
    /\ st = [t \in AllThreads |-> IF t = "main" THEN "running" ELSE "new"]
    /\ pc = [t \in AllThreads |->
                IF t = "main"
                THEN (CASE cell = "sequential" -> "s_start"
                        [] cell \in ThreadCells -> "m_start"
                        [] OTHER -> "loop")
                ELSE "w_start"]
    /\ gil = "main"
    /\ wake = [t \in AllThreads |-> -1]
    /\ joining = "none"
    /\ started_at = [t \in AllThreads |-> 0]
    /\ elapsed = [t \in Workers |-> 0]
    /\ work = [t \in Workers |-> IF cell = "cpu_threads" THEN CpuArg(t) ELSE 0]
    /\ k = 1
    /\ i = range_start
    /\ sleep_time = 0
    /\ results = <<>>
    /\ running_loop = "kernel"
    /\ task = [u \in Tasks |->
                IF cell \in AsyncCells
                THEN (IF u = "cell" THEN "ready" ELSE "suspended")
                ELSE "absent"]
    /\ cpc = [u \in Tasks |->
                IF u = "kernel" THEN "k_step"
                ELSE IF cell = "asyncio_run" THEN "a_run" ELSE "m_routine"]
    /\ timer = [u \in Tasks |-> -1]
    /\ err = "none"
    /\ ksteps = 0

Next ==
    \/ \E t \in AllThreads : TakeGil(t)
    \/ \E t \in AllThreads : Preempt(t)
    \/ \E t \in AllThreads : SleepWake(t)
    \/ \E t \in Workers : WrapperStart(t)
    \/ \E t \in Workers : io_bound(t)
    \/ \E t \in Workers : cpu_bound(t)
    \/ \E t \in Workers : WrapperEnd(t)
    \/ \E t \in Workers : WrapperPrint(t)
    \/ \E t \in Workers : WrapperReturn(t)
    \/ MainStartTime
    \/ ThreadStart
    \/ ThreadJoinDone
    \/ ThreadJoinBlock
    \/ ThreadJoinWake
    \/ MainPrintWorkTime
    \/ SeqStartTime
    \/ SeqLoop
    \/ RoutineRandint
    \/ RoutinePrintSleeping
    \/ RoutineSleep
    \/ RoutinePrintWoken
    \/ RoutineReturn
    \/ SeqPrintResults
    \/ SeqPrintElapsed
    \/ \E u \in Tasks : LoopRunOnce(u)
    \/ \E u \in Tasks : TimerFire(u)
    \/ asyncio_run
    \/ RoutinePrint
    \/ RoutineTimeSleep
    \/ RoutineReturnPrint
    \/ CoroutinePrint
    \/ CoroutineAwaitSleep
    \/ CoroutineReturnPrint
    \/ KernelEvent
    \/ KernelStep
    \/ KernelAwait
    \/ Tick

Spec == Init /\ [][Next]_vars

-----------------------------------------------------------------------------
(* Properties *)

Last(q) == q[Len(q)]

Positions(kind, who) ==
    {n \in 1..Len(out) : out[n].kind = kind /\ out[n].who = who}

\* the worker threads that have been started and have not finished
LiveWorkers == {t \in Workers : st[t] \notin {"new", "finished"}}

\* the threads executing bytecode
RunningThreads == {t \in AllThreads : st[t] = "running"}

\* the tasks executing on the event loop
RunningTasks == {u \in Tasks : task[u] = "running"}

\* the routines of the sequential cell that have printed "is sleeping" and
\* not yet "has woken up"
AsleepRoutines ==
    {n \in {"R1", "R2", "R3"} :
        Positions("is_sleeping", n) # {} /\ Positions("has_woken_up", n) = {}}

SequentialLines ==
    <<[kind |-> "is_sleeping",  who |-> "R3"],
      [kind |-> "has_woken_up", who |-> "R3"],
      [kind |-> "is_sleeping",  who |-> "R2"],
      [kind |-> "has_woken_up", who |-> "R2"],
      [kind |-> "is_sleeping",  who |-> "R1"],
      [kind |-> "has_woken_up", who |-> "R1"],
      [kind |-> "Results",      who |-> ""],
      [kind |-> "Elapsed_time", who |-> ""]>>

\* C1: in the sequential cell the calls run one after another in the order
\* R3, R2, R1 whatever the sleep times drawn from 1..5: the output is always
\* a prefix of R3-sleeping, R3-woken, R2-sleeping, R2-woken, R1-sleeping,
\* R1-woken (then the two summary lines), every sleep time printed is in
\* 1..5, no two routines are asleep at once, and the finished cell has
\* printed all of the lines.
C1_SequentialOrder ==
    cell = "sequential" =>
        /\ Len(out) <= Len(SequentialLines)
        /\ \A n \in 1..Len(out) :
              /\ out[n].kind = SequentialLines[n].kind
              /\ out[n].who = SequentialLines[n].who
              /\ out[n].kind = "is_sleeping" =>
                    /\ Len(out[n].val) = 1
                    /\ out[n].val[1] \in 1..5
        /\ Cardinality(AsleepRoutines) <= 1
        /\ pc["main"] = "done" => Len(out) = Len(SequentialLines)

\* C1 witness: the cell has finished after R3 slept 5, R2 slept 1 and R1
\* slept 3 seconds.
C1_Witness ==
    /\ cell = "sequential"
    /\ pc["main"] = "done"
    /\ out[1].val = <<5>> /\ out[3].val = <<1>> /\ out[5].val = <<3>>
    /\ Last(out).val = <<9>>

\* C2: when each thread is started and joined in the same iteration, at most
\* one worker is started-and-not-finished, T2 is never started before T1
\* has finished, and the work time printed is the sum 1 + 2 = 3.
C2_StartJoinSerial ==
    cell = "refactored" =>
        /\ Cardinality(LiveWorkers) <= 1
        /\ st["T2"] # "new" => st["T1"] = "finished"
        /\ pc["main"] = "done" => Last(out) = Line("work_time", "", <<3>>)

\* C2 witness: the refactored cell has finished, both elapsed lines printed.
C2_Witness ==
    /\ cell = "refactored"
    /\ pc["main"] = "done"
    /\ Positions("elapsed_time", "T1_imp") # {}
    /\ Positions("elapsed_time", "T2_imp") # {}

\* C3: when all threads are started in one loop and joined in a second one,
\* T1's elapsed-time line is printed before T2's, with elapsed times 1 and
\* 2, and the work time printed is the maximum 2, not the sum 3.
C3_StartThenJoinOverlaps ==
    cell = "re_refactored" =>
        /\ \A a \in Positions("elapsed_time", "T1_imp") : out[a].val = <<1>>
        /\ \A b \in Positions("elapsed_time", "T2_imp") :
              /\ out[b].val = <<2>>
              /\ \E a \in Positions("elapsed_time", "T1_imp") : a < b
        /\ pc["main"] = "done" =>
              /\ Last(out) = Line("work_time", "", <<2>>)
              /\ Positions("elapsed_time", "T2_imp") # {}

\* C3 witness: both T1 and T2 are asleep in io_bound at the same time,
\* started and not finished.
C3_BothLive ==
    /\ cell = "re_refactored"
    /\ LiveWorkers = Workers
    /\ \A t \in Workers : st[t] = "blocked" /\ wake[t] > now

\* a step in which a worker makes progress on cpu_bound is taken by the
\* holder of the GIL while no other thread is executing
ProgressNeedsGil ==
    cell = "cpu_threads" =>
        \A t \in Workers : work'[t] # work[t] =>
            (gil = t /\ \A u \in AllThreads \ {t} : st[u] # "running")

\* C4: in the two-thread CPU-bound cell at most one thread is executing
\* bytecode and it is the holder of the GIL, and a step in which a thread
\* makes progress on cpu_bound is a step of the thread holding the GIL.
C4_GilMutex ==
    /\ [](cell = "cpu_threads" =>
            /\ Cardinality(RunningThreads) <= 1
            /\ \A t \in RunningThreads : gil = t)
    /\ [][ProgressNeedsGil]_vars

\* C4 witness: T2 holds the GIL in the middle of its work while T1, with
\* work left, waits for it.
C4_Witness ==
    /\ cell = "cpu_threads"
    /\ gil = "T2" /\ st["T2"] = "running"
    /\ 0 < work["T2"] /\ work["T2"] < CpuArg("T2")
    /\ st["T1"] = "waiting" /\ work["T1"] > 0

\* C5: in the I/O-bound threads cell a thread blocked in time.sleep does not
\* hold the GIL, and the sleeps overlap: the work time printed is 2.
C5_SleepReleasesGil ==
    cell = "io_threads" =>
        /\ \A t \in Workers : (st[t] = "blocked" /\ wake[t] >= 0) => gil # t
        /\ pc["main"] = "done" => Last(out) = Line("work_time", "", <<2>>)

\* C5 witness: T2 holds the GIL and is about to sleep while T1 is asleep.
C5_Witness ==
    /\ cell = "io_threads"
    /\ st["T1"] = "blocked" /\ wake["T1"] > now
    /\ gil = "T2" /\ st["T2"] = "running" /\ pc["T2"] = "w_call"

\* C6: asyncio.run(main()) called while the kernel's loop is running ends
\* with RuntimeError, nothing of main is printed, main's body is never
\* entered and the kernel's loop stays the running loop.
C6_RunInRunningLoopRaises ==
    cell = "asyncio_run" =>
        /\ out = <<>>
        /\ running_loop = "kernel"
        /\ cpc["cell"] \in {"a_run", "raised"}
        /\ cpc["cell"] = "raised" <=> err = "RuntimeError"
        /\ task["cell"] = "done" => err = "RuntimeError"

\* C6 witness: the call has raised and the kernel's loop goes on running
\* its other task.
C6_Witness ==
    /\ cell = "asyncio_run"
    /\ err = "RuntimeError"
    /\ running_loop = "kernel"
    /\ task["kernel"] = "running"

\* a task starts executing only when none is, and stops executing without
\* being done only at an await
SwitchOnlyAtAwait ==
    cell \in AsyncCells =>
        \A u \in Tasks :
            /\ (task[u] # "running" /\ task'[u] = "running") =>
                    RunningTasks = {}
            /\ (task[u] = "running" /\ task'[u] # "running") =>
                    (cpc[u] \in {"c_await", "k_await"} \/ task'[u] = "done")

\* C7: at most one task is executing on the event loop; a task starts
\* executing only when none is, and a task that stops executing without
\* being done does so at an await.
C7_CooperativeLoop ==
    /\ [](cell \in AsyncCells => Cardinality(RunningTasks) <= 1)
    /\ [][SwitchOnlyAtAwait]_vars

\* C7 witness: main's task is suspended at its await and the other task is
\* the one executing.
C7_Witness ==
    /\ cell = "await_main"
    /\ task["cell"] = "suspended" /\ cpc["cell"] = "c_return"
    /\ task["kernel"] = "running" /\ cpc["kernel"] = "k_await"

\* main is inside routine(), between its print and its return
InRoutine == cpc["cell"] \in {"r_sleep", "r_return"}

\* a step taken while main is inside routine() leaves the other task alone
NoResumeInRoutine ==
    (cell = "await_main" /\ InRoutine) =>
        (task'["kernel"] = task["kernel"] /\ ksteps' = ksteps)

\* C8: while main is inside routine() (time.sleep included) its task stays
\* the executing one and the other task of the loop is neither resumed nor
\* makes a step; while main's task is suspended in await asyncio.sleep the
\* loop can resume the other task when it is ready.
C8_RoutineBlocksLoop ==
    /\ [](cell = "await_main" /\ InRoutine => RunningTasks = {"cell"})
    /\ [][NoResumeInRoutine]_vars
    /\ [](cell = "await_main" /\ task["cell"] = "suspended"
              /\ task["kernel"] = "ready" =>
            ENABLED LoopRunOnce("kernel"))

\* C8 witness: the thread of the loop is blocked in routine's time.sleep
\* while the other task is ready to run.
C8_Witness ==
    /\ cell = "await_main"
    /\ cpc["cell"] = "r_return"
    /\ st["main"] = "blocked" /\ wake["main"] > now
    /\ task["kernel"] = "ready"

====
